---- MODULE Spec2Model ----
(***************************************************************************)
(* Verification model of the cricket "Hawk-Eye" video analyzer             *)
(* (components/VideoAnalyzer.tsx): the per-frame ball localizer            *)
(* detectBall, the temporal sampler extractDetections with seekVideo and   *)
(* ensureVideoReady, the React component's handlers (handleAnalyze,        *)
(* handleReset, handleFileChange, dropHandler) and the summary panel.      *)
(*                                                                         *)
(* Time.  The source computes in seconds with                              *)
(*   sampleInterval = max(0.08, duration / 320).                           *)
(* The model keeps every time exact as an integer number of "ticks", one   *)
(* tick being 1/MAX_SAMPLES of a millisecond, so that duration / 320 is an *)
(* integer for every duration given in whole milliseconds.  IEEE rounding  *)
(* of the repeated addition time += sampleInterval is not modelled.        *)
(***************************************************************************)
EXTENDS Integers, Sequences, FiniteSets, TLC

VARIABLES
    \* React state of VideoAnalyzer (useState / useRef)
    file, videoUrl, error, isAnalyzing, detections, trajectory, progress,
    cvReady, analysisTimestamp, videoRef,
    \* the promise of loadOpenCv: "pending", "resolved" or "rejected"
    cvLoad,
    \* the reachable <video> elements; the invocations of handleAnalyze that are
    \* in progress or ended since the last one started
    elems, runs,
    \* OpenCV handles that are allocated and not deleted; the last detectBall call
    liveBuffers, detectCalls, lastFrame, lastResult,
    \* the summary handed to the Delivery Insights panel and what it shows
    summary, panel

uiVars == <<file, videoUrl, error, isAnalyzing, detections, trajectory, progress,
            cvReady, analysisTimestamp, videoRef, cvLoad>>
domVars == <<elems, runs>>
cvVars == <<liveBuffers, detectCalls, lastFrame, lastResult>>
viewVars == <<summary, panel>>
vars == <<uiVars, domVars, cvVars, viewVars>>

Max(a, b) == IF a >= b THEN a ELSE b
Min(a, b) == IF a <= b THEN a ELSE b
Abs(a) == IF a < 0 THEN -a ELSE a

(***************************************************************************)
(* Bounds of the model.                                                    *)
(***************************************************************************)
MaxContours == 2
MaxCalls == 3
MaxRuns == 2
PatternPeriod == 2
MaxDuration == 30000

(***************************************************************************)
(* Program constants.                                                      *)
(***************************************************************************)
SAMPLE_INTERVAL_MS == 80
MAX_SAMPLES == 320
SEEK_TOLERANCE_MS == 10
MIN_CONTOUR_AREA == 15

(***************************************************************************)
(* detectBall.  A frame is what cv.imread and the OpenCV pipeline make of  *)
(* the canvas: either an empty mat, or the external contours of the red    *)
(* mask, each with its area, its arc length and its zeroth moment.         *)
(***************************************************************************)
Speck == [area |-> 4, perimeter |-> 8, m00 |-> 4]
Sliver == [area |-> 20, perimeter |-> 0, m00 |-> 20]
Ball == [area |-> 80, perimeter |-> 32, m00 |-> 80]
Blob == [area |-> 60, perimeter |-> 60, m00 |-> 60]
Degenerate == [area |-> 90, perimeter |-> 34, m00 |-> 0]
ContourKinds == {Speck, Sliver, Ball, Blob, Degenerate}

SeqsUpTo(S, n) == UNION {[1..k -> S] : k \in 0..n}
EmptyFrame == [empty |-> TRUE, contours |-> <<>>]
BlankFrame == [empty |-> FALSE, contours |-> <<>>]
BallFrame == [empty |-> FALSE, contours |-> <<Ball>>]
Frames == {EmptyFrame} \cup {[empty |-> FALSE, contours |-> c] : c \in SeqsUpTo(ContourKinds, MaxContours)}

\* The mats and vectors detectBall creates (lines 99-137) ...
WorkingBuffers == {"mat", "resized", "blurred", "rgb", "hsv", "lowerRed1", "upperRed1",
                   "lowerRed2", "upperRed2", "mask1", "mask2", "mask", "kernel",
                   "contours", "hierarchy"}
\* ... and those its cleanup block deletes (lines 176-190).
ReleasedBuffers == {"mat", "resized", "blurred", "rgb", "hsv", "mask", "mask1", "mask2",
                    "kernel", "contours", "hierarchy", "lowerRed1", "upperRed1",
                    "lowerRed2", "upperRed2"}

\* score > bestScore, with score = circularity * area = 4*pi*area^2 / perimeter^2:
\* for positive areas and perimeters, a^2/p^2 > b^2/q^2 iff a*q > b*p.  bestP = 0
\* stands for the initial bestScore = 0, which every surviving contour beats.
ScoreBeats(a, p, bestA, bestP) == IF bestP = 0 THEN TRUE ELSE a * bestP > bestA * p

\* The contour is deleted at the end of the loop body only: both `continue`
\* statements skip contour.delete().
ContourDeletedInLoop(c) == c.area >= MIN_CONTOUR_AREA /\ c.perimeter # 0

\* The loop of lines 142-159 from index i (1-based here) on: the best contour's
\* index (0: none), and the number of contours.get handles left undeleted.
RECURSIVE ContourLoop(_, _, _, _, _, _)
ContourLoop(cs, i, best, bestA, bestP, leaked) ==
    IF i > Len(cs) THEN [best |-> best, leaked |-> leaked]
    ELSE LET c == cs[i]
             gone == IF ContourDeletedInLoop(c) THEN 0 ELSE 1
         IN IF c.area < MIN_CONTOUR_AREA \/ c.perimeter = 0
            THEN ContourLoop(cs, i + 1, best, bestA, bestP, leaked + gone)
            ELSE IF ScoreBeats(c.area, c.perimeter, bestA, bestP)
                 THEN ContourLoop(cs, i + 1, i, c.area, c.perimeter, leaked + gone)
                 ELSE ContourLoop(cs, i + 1, best, bestA, bestP, leaked + gone)

\* detectBall: whether a candidate is returned, from which contour, and how many
\* handles the call leaves allocated.
detectBall(frame) ==
    IF frame.empty
    THEN [found |-> FALSE, best |-> 0, leaked |-> 0]
    ELSE LET r == ContourLoop(frame.contours, 1, 0, 0, 0, 0)
         IN [found |-> r.best > 0 /\ frame.contours[r.best].m00 # 0,
             best |-> r.best,
             leaked |-> r.leaked + Cardinality(WorkingBuffers \ ReleasedBuffers)]

(***************************************************************************)
(* The Delivery Insights panel (lines 410-437).  A summary field is absent *)
(* or a number; numbers are kept in thousandths.  Each <dd> shows the      *)
(* formatted number when the field is truthy and the dash otherwise.       *)
(***************************************************************************)
Absent == [present |-> FALSE, value |-> 0]
Num(v) == [present |-> TRUE, value |-> v]
FieldValues == {Absent, Num(0), Num(4), Num(1250)}
SummaryFields == {"releaseSpeed", "peakHeight", "bounceDistance", "lateralMovement", "confidence"}
AllAbsent == [f \in SummaryFields |-> Absent]

\* JavaScript truthiness of `number | null | undefined`
Truthy(v) == v.present /\ v.value # 0

\* Number.prototype.toFixed(digits) of a value in thousandths, as the number of
\* 10^-digits units shown (round half up); Math.round(v * 100) for the percent.
Pow10(n) == IF n = 0 THEN 1 ELSE IF n = 1 THEN 10 ELSE IF n = 2 THEN 100 ELSE 1000
ToFixed(v, digits) == (v * Pow10(digits) + 500) \div 1000
Dash == [unknown |-> TRUE, digits |-> 0, shown |-> 0]
Shown(v, digits) == [unknown |-> FALSE, digits |-> digits, shown |-> ToFixed(v, digits)]

FieldDigits(f) == IF f = "releaseSpeed" THEN 1 ELSE 2
RenderField(f, v) == IF Truthy(v) THEN Shown(v.value, FieldDigits(f)) ELSE Dash
RenderPanel(s) == [f \in SummaryFields |-> RenderField(f, s[f])]

(***************************************************************************)
(* Videos, <video> elements and progress values.                           *)
(***************************************************************************)
\* One tick is 1/MAX_SAMPLES ms.
Ticks(ms) == ms * MAX_SAMPLES

\* A chosen File: its duration in ms, whether the media has a video track
\* (videoWidth and videoHeight are 0 otherwise), and the frames that show the
\* ball: the frame at time t shows it iff the index of t's 80 ms slot, modulo
\* PatternPeriod, is in `pattern`.
NoFile == [name |-> "none", duration |-> 0, hasDims |-> FALSE, pattern |-> {}]
Clip(d, dims, pat) == [name |-> "clip", duration |-> d, hasDims |-> dims, pattern |-> pat]
Patterns == SUBSET (0..(PatternPeriod - 1))

\* An HTMLVideoElement: src, readyState (0 HAVE_NOTHING, 1 HAVE_METADATA,
\* 2 HAVE_CURRENT_DATA or more), currentTime, and the seek in flight.
NewElem(f) == [src |-> f, readyState |-> 0, currentTime |-> 0, seeking |-> FALSE, target |-> 0]

\* Progress values: a fraction num/den, or NaN.
P0 == [nan |-> FALSE, num |-> 0, den |-> 1]
P1 == [nan |-> FALSE, num |-> 1, den |-> 1]
NaN == [nan |-> TRUE, num |-> 0, den |-> 1]

\* Math.min(1, time / duration) (line 237): 0/0 is NaN and Math.min(1, NaN) is
\* NaN; t/0 for t > 0 is Infinity.
ProgressOf(time, duration) ==
    IF duration = 0 THEN (IF time = 0 THEN NaN ELSE P1)
    ELSE IF time >= duration THEN P1
    ELSE IF time = 0 THEN P0
    ELSE [nan |-> FALSE, num |-> time, den |-> duration]

\* p <= q for two progress values that are not NaN; values reported by one run
\* share their denominator unless one of them is 0 or 1.
ProgressLeq(p, q) ==
    IF p.den = q.den THEN p.num <= q.num
    ELSE IF p.den = 1 THEN (p.num = 0 \/ q.num = q.den)
    ELSE (q.num = 1 /\ q.den = 1)
InUnitInterval(p) == ~p.nan /\ 0 <= p.num /\ p.num <= p.den

\* Math.max(SAMPLE_INTERVAL_SECONDS, duration / MAX_SAMPLES) (line 217), in ticks
\* for a duration in ms.
sampleInterval(duration) == Max(Ticks(SAMPLE_INTERVAL_MS), duration)

\* Mutant of LoopGuard: the end of the clip is excluded.
LoopGuardStrict(time, sampleIndex, duration) == time < Ticks(duration) /\ sampleIndex <= MAX_SAMPLES

\* The loop condition of line 221.
LoopGuard(time, sampleIndex, duration) == time <= Ticks(duration) /\ sampleIndex <= MAX_SAMPLES

\* seekVideo's early return (line 27) negated: a seek is issued.
SeekNeeded(currentTime, time) == ~(Abs(currentTime - time) < Ticks(SEEK_TOLERANCE_MS))

\* Math.min(Math.max(time, 0), video.duration) (line 43)
ClampTime(time, duration) == Min(Max(time, 0), Ticks(duration))

\* What ctx.drawImage puts on the canvas and the OpenCV pipeline makes of it: no
\* frame data before HAVE_CURRENT_DATA, else the frame of src at currentTime.
FrameOf(e) ==
    IF e.readyState < 2 THEN BlankFrame
    ELSE IF ((e.currentTime \div Ticks(SAMPLE_INTERVAL_MS)) % PatternPeriod) \in e.src.pattern
         THEN BallFrame
         ELSE BlankFrame

\* videoWidth && videoHeight (lines 201-203)
HasDims(e) == e.readyState >= 1 /\ e.src.hasDims

(***************************************************************************)
(* Error messages.                                                         *)
(***************************************************************************)
NoError == ""
DimsMsg == "Video dimensions unavailable. Please choose a different file."
SurfaceMsg == "Unable to create analysis surface."
SeekMsg == "Failed to seek video frame."
NoSamplesMsg == "No valid ball samples detected. Ensure the ball is clearly visible and contrasts with the pitch."
GenericMsg == "Video analysis failed due to an unexpected error."
NotReadyMsg == "Video element is not ready yet."
CvLoadingMsg == "Computer vision engine is still loading. Please wait a moment."
CvFailedMsg == "Unable to initialize the OpenCV engine. Please reload the page."

\* convertDetectionsToHawkEye (lib/trajectory): one HawkEyePoint per detection,
\* at the same index and time.
convertDetectionsToHawkEye(d) == [i \in DOMAIN d |-> [time |-> d[i].time]]

(***************************************************************************)
(* A run of handleAnalyze.  status: "ready" (awaiting loadedmetadata in    *)
(* ensureVideoReady), "seek" (awaiting seeked or error in seekVideo),      *)
(* "run" (executing), "done", "failed".  begun, sampled, reported, hits,   *)
(* abandoned, begunAtAbandon, projected, message, failedAt, errored and    *)
(* returned record the run's history for the properties below: the steps   *)
(* begun and their times, the progress values handed to onProgress, the    *)
(* steps whose localization returned a candidate, whether the caller       *)
(* abandoned the run and after how many steps, whether the projector was   *)
(* called, the message handleAnalyze caught and after how many steps,      *)
(* whether a seek of the run raised 'error', and whether extractDetections *)
(* returned.                                                               *)
(***************************************************************************)
NewRun(e, ctxOk) ==
    [status |-> "ready", elem |-> e, ctxOk |-> ctxOk, duration |-> 0, time |-> 0,
     sampleIndex |-> 0, detections |-> <<>>, begun |-> 0, sampled |-> <<>>,
     reported |-> <<>>, hits |-> <<>>, abandoned |-> FALSE, begunAtAbandon |-> 0,
     projected |-> FALSE, message |-> NoError, failedAt |-> 0, errored |-> FALSE,
     returned |-> FALSE]

Active(run) == run.status \in {"ready", "seek", "run"}

\* The state the continuations of a run read and write.
World == [runs |-> runs, elems |-> elems, error |-> error, isAnalyzing |-> isAnalyzing,
          detections |-> detections, trajectory |-> trajectory, progress |-> progress,
          analysisTimestamp |-> analysisTimestamp, liveBuffers |-> liveBuffers]

\* Mutant of FailRun: the catch block also discards the displayed results.
FailRunClearing(w, r, msg) ==
    [w EXCEPT !.runs[r].status = "failed", !.runs[r].message = msg, !.runs[r].elem = 0,
              !.runs[r].failedAt = w.runs[r].begun,
              !.error = msg, !.isAnalyzing = FALSE,
              !.detections = <<>>, !.trajectory = <<>>, !.analysisTimestamp = 0]

\* catch and finally of handleAnalyze (lines 316-325)
FailRun(w, r, msg) ==
    [w EXCEPT !.runs[r].status = "failed", !.runs[r].message = msg, !.runs[r].elem = 0,
              !.runs[r].failedAt = w.runs[r].begun,
              !.error = msg, !.isAnalyzing = FALSE]

\* Date.now() (line 314): a time stamp other than the one displayed.
Now(shown) == 1 + (shown % 2)

\* Mutant of CompleteRun: the empty result is not rejected.
CompleteRunUnchecked(w, r) ==
    LET d == w.runs[r].detections
    IN [w EXCEPT !.runs[r].status = "done", !.runs[r].projected = TRUE, !.runs[r].elem = 0,
                 !.detections = d, !.trajectory = convertDetectionsToHawkEye(d),
                 !.analysisTimestamp = Now(w.analysisTimestamp), !.progress = P1,
                 !.isAnalyzing = FALSE]

\* handleAnalyze after extractDetections returned (lines 305-315, 323-325).
CompleteRun(w, r) ==
    LET d == w.runs[r].detections
    IN IF Len(d) = 0
       THEN FailRun(w, r, NoSamplesMsg)
       ELSE [w EXCEPT !.runs[r].status = "done", !.runs[r].projected = TRUE, !.runs[r].elem = 0,
                      !.detections = d, !.trajectory = convertDetectionsToHawkEye(d),
                      !.analysisTimestamp = Now(w.analysisTimestamp), !.progress = P1,
                      !.isAnalyzing = FALSE]

\* The for loop of extractDetections (lines 219-238) from its condition on, up to
\* the next await that suspends (a seek was issued) or the end of the run.
RECURSIVE SampleLoop(_, _)
RECURSIVE CaptureStep(_, _)
SampleLoop(w, r) ==
    LET run == w.runs[r]
        e == w.elems[run.elem]
    IN IF LoopGuard(run.time, run.sampleIndex, run.duration)
       THEN LET w1 == [w EXCEPT !.runs[r].begun = @ + 1,
                                !.runs[r].sampled = Append(@, run.time)]
            IN IF SeekNeeded(e.currentTime, run.time)
               THEN [w1 EXCEPT !.runs[r].status = "seek",
                               !.elems[run.elem].seeking = TRUE,
                               !.elems[run.elem].target = ClampTime(run.time, e.src.duration)]
               ELSE CaptureStep(w1, r)
       ELSE CompleteRun([w EXCEPT !.runs[r].returned = TRUE], r)

\* Mutant of PushDetection: a miss leaves a placeholder entry.
PushDetectionPlaceholder(dets, det, time) == Append(dets, [time |-> time])

\* Lines 227-236: a candidate is appended with the step's time, a miss is skipped.
PushDetection(dets, det, time) ==
    IF det.found THEN Append(dets, [time |-> time]) ELSE dets

\* Lines 225-237 and the loop's increment: capture, localize, append, report.
CaptureStep(w, r) ==
    LET run == w.runs[r]
        det == detectBall(FrameOf(w.elems[run.elem]))
        p == ProgressOf(run.time, Ticks(run.duration))
        w1 == [w EXCEPT !.runs[r].status = "run",
                        !.runs[r].detections = PushDetection(@, det, run.time),
                        !.runs[r].hits = IF det.found THEN Append(@, run.sampleIndex) ELSE @,
                        !.runs[r].reported = Append(@, p),
                        !.runs[r].time = @ + sampleInterval(run.duration),
                        !.runs[r].sampleIndex = @ + 1,
                        !.progress = p,
                        !.liveBuffers = @ + det.leaked]
    IN SampleLoop(w1, r)

\* extractDetections after ensureVideoReady (lines 201-217)
BeginRun(w, r) ==
    LET run == w.runs[r]
        e == w.elems[run.elem]
    IN IF ~HasDims(e) THEN FailRun(w, r, DimsMsg)
       ELSE IF ~run.ctxOk THEN FailRun(w, r, SurfaceMsg)
       ELSE SampleLoop([w EXCEPT !.runs[r].status = "run",
                                 !.runs[r].duration = e.src.duration], r)

\* The listeners a media event of element e wakes, in the order they were added:
\* every run of index >= r that waits on e for the event continues.
RECURSIVE WakeReady(_, _, _)
WakeReady(w, e, r) ==
    IF r > Len(w.runs) THEN w
    ELSE IF w.runs[r].status = "ready" /\ w.runs[r].elem = e
         THEN WakeReady(BeginRun(w, r), e, r + 1)
         ELSE WakeReady(w, e, r + 1)

RECURSIVE WakeSeeked(_, _, _)
WakeSeeked(w, e, r) ==
    IF r > Len(w.runs) THEN w
    ELSE IF w.runs[r].status = "seek" /\ w.runs[r].elem = e
         THEN WakeSeeked(CaptureStep(w, r), e, r + 1)
         ELSE WakeSeeked(w, e, r + 1)

\* Mutant of OnSeekError: the frame is skipped and the loop goes on.
OnSeekErrorSkip(w, r) ==
    SampleLoop([w EXCEPT !.runs[r].status = "run",
                         !.runs[r].time = @ + sampleInterval(w.runs[r].duration),
                         !.runs[r].sampleIndex = @ + 1], r)

\* onError of seekVideo (lines 36-40): the promise rejects, extractDetections
\* throws out of its loop and handleAnalyze catches.
OnSeekError(w, r) == FailRun(w, r, SeekMsg)

RECURSIVE WakeError(_, _, _)
WakeError(w, e, r) ==
    IF r > Len(w.runs) THEN w
    ELSE IF w.runs[r].status = "seek" /\ w.runs[r].elem = e
         THEN WakeError(OnSeekError([w EXCEPT !.runs[r].errored = TRUE], r), e, r + 1)
         ELSE WakeError(w, e, r + 1)

\* The <video> elements that can be reachable at once: the mounted one and one
\* per run in progress.
MaxElems == MaxRuns + 1

\* An element the program can still observe: the mounted one, or one a run in
\* progress holds.  Events of the others have no listener and no reader.
LiveIn(e, rs, mounted) == e = mounted \/ \E r \in DOMAIN rs : Active(rs[r]) /\ rs[r].elem = e

\* Garbage collection: an element that is neither mounted nor held by a run in
\* progress is unreachable, and its slot is free again.
FreeElem == NewElem(NoFile)
Collect(es, rs, mounted) ==
    [e \in DOMAIN es |-> IF LiveIn(e, rs, mounted) THEN es[e] ELSE FreeElem]

Live(e) == LiveIn(e, runs, videoRef)

\* The run state written back to the variables.
Publish(w) ==
    /\ runs' = w.runs
    /\ elems' = Collect(w.elems, w.runs, videoRef)
    /\ error' = w.error
    /\ isAnalyzing' = w.isAnalyzing
    /\ detections' = w.detections
    /\ trajectory' = w.trajectory
    /\ progress' = w.progress
    /\ analysisTimestamp' = w.analysisTimestamp
    /\ liveBuffers' = w.liveBuffers

(***************************************************************************)
(* The handlers of VideoAnalyzer and the media events.                     *)
(***************************************************************************)
\* A run in progress whose source the caller resets or replaces is abandoned;
\* the number of steps it had begun is kept.
MarkAbandoned(rs) ==
    [i \in DOMAIN rs |->
        IF Active(rs[i]) /\ ~rs[i].abandoned
        THEN [rs[i] EXCEPT !.abandoned = TRUE, !.begunAtAbandon = rs[i].begun]
        ELSE rs[i]]

\* setFile(candidate), then the effect of [file] (lines 261-272) and the render:
\* the <video> is mounted if it was not, else its src changes, which restarts
\* the element's resource selection and aborts a seek in flight.
LoadSource(f) ==
    /\ file' = f
    /\ videoUrl' = f
    /\ detections' = <<>>
    /\ trajectory' = <<>>
    /\ progress' = P0
    /\ analysisTimestamp' = 0
    /\ IF videoRef = 0
       THEN /\ \E e \in DOMAIN elems : ~Live(e)
            /\ LET slot == CHOOSE e \in DOMAIN elems : ~Live(e) /\ \A o \in DOMAIN elems : ~Live(o) => e <= o
               IN /\ elems' = [elems EXCEPT ![slot] = NewElem(f)]
                  /\ videoRef' = slot
       ELSE /\ elems' = [elems EXCEPT ![videoRef] = NewElem(f)]
            /\ videoRef' = videoRef
    /\ runs' = MarkAbandoned(runs)

handleFileChange(f) ==
    /\ LoadSource(f)
    /\ error' = NoError
    /\ UNCHANGED <<isAnalyzing, cvReady, cvLoad, cvVars, viewVars>>

dropHandler(f) ==
    /\ LoadSource(f)
    /\ UNCHANGED <<error, isAnalyzing, cvReady, cvLoad, cvVars, viewVars>>

\* The Reset button is part of the video panel, rendered while videoUrl is set.
handleReset ==
    /\ videoUrl # NoFile
    /\ file' = NoFile
    /\ videoUrl' = NoFile
    /\ detections' = <<>>
    /\ trajectory' = <<>>
    /\ analysisTimestamp' = 0
    /\ progress' = P0
    /\ elems' = IF videoRef = 0 THEN elems
                ELSE Collect([elems EXCEPT ![videoRef].seeking = (elems[videoRef].readyState >= 1),
                                           ![videoRef].target = 0], runs, 0)
    /\ videoRef' = 0
    /\ runs' = MarkAbandoned(runs)
    /\ UNCHANGED <<error, isAnalyzing, cvReady, cvLoad, cvVars, viewVars>>

\* Mutant of AnalyzeEnabled: the button is not disabled during a run.
AnalyzeEnabledAlways == videoUrl # NoFile

\* The Analyze button is rendered while videoUrl is set, disabled={isAnalyzing}.
AnalyzeEnabled == videoUrl # NoFile /\ ~isAnalyzing

\* handleAnalyze up to its first suspension; ctxOk is whether canvas.getContext
\* returns a context.
handleAnalyze(ctxOk) ==
    /\ AnalyzeEnabled
    /\ UNCHANGED <<file, videoUrl, cvReady, cvLoad, videoRef, detectCalls, lastFrame,
                   lastResult, viewVars>>
    /\ IF videoRef = 0
       THEN /\ error' = NotReadyMsg
            /\ UNCHANGED <<isAnalyzing, detections, trajectory, progress, analysisTimestamp,
                           elems, runs, liveBuffers>>
       ELSE IF ~cvReady
       THEN /\ error' = CvLoadingMsg
            /\ UNCHANGED <<isAnalyzing, detections, trajectory, progress, analysisTimestamp,
                           elems, runs, liveBuffers>>
       ELSE /\ Len(SelectSeq(runs, Active)) < MaxRuns
            /\ LET r == Len(SelectSeq(runs, Active)) + 1
                   w0 == [World EXCEPT !.runs = Append(SelectSeq(@, Active), NewRun(videoRef, ctxOk)),
                                       !.isAnalyzing = TRUE,
                                       !.error = NoError,
                                       !.progress = P0]
               IN Publish(IF w0.elems[videoRef].readyState >= 2 THEN BeginRun(w0, r) ELSE w0)


\* 'loadedmetadata' on element e: the runs waiting in ensureVideoReady go on.
LoadedMetadata(e) ==
    /\ Live(e)
    /\ elems[e].readyState = 0
    /\ Publish(WakeReady([World EXCEPT !.elems[e].readyState = 1], e, 1))
    /\ UNCHANGED <<file, videoUrl, cvReady, cvLoad, videoRef, detectCalls, lastFrame,
                   lastResult, viewVars>>

\* The first frame of e is decoded: readyState reaches HAVE_CURRENT_DATA.
LoadedData(e) ==
    /\ Live(e)
    /\ elems[e].readyState = 1
    /\ elems' = [elems EXCEPT ![e].readyState = 2]
    /\ UNCHANGED <<uiVars, runs, cvVars, viewVars>>

\* 'seeked' on element e: the seek in flight ends at its target with the frame
\* decoded, and the runs waiting in seekVideo go on.
Seeked(e) ==
    /\ Live(e)
    /\ elems[e].seeking
    /\ elems[e].readyState >= 1
    /\ Publish(WakeSeeked([World EXCEPT !.elems[e].currentTime = elems[e].target,
                                        !.elems[e].seeking = FALSE,
                                        !.elems[e].readyState = 2], e, 1))
    /\ UNCHANGED <<file, videoUrl, cvReady, cvLoad, videoRef, detectCalls, lastFrame,
                   lastResult, viewVars>>

\* The user scrubs the mounted video (the element has `controls`): a seek to t
\* starts, replacing a seek in flight.
UserSeek(t) ==
    /\ videoRef # 0
    /\ elems[videoRef].readyState >= 1
    /\ elems' = [elems EXCEPT ![videoRef].seeking = TRUE,
                              ![videoRef].target = ClampTime(Ticks(t), elems[videoRef].src.duration)]
    /\ UNCHANGED <<uiVars, runs, cvVars, viewVars>>

\* 'error' on element e while a run waits in seekVideo.
VideoError(e) ==
    /\ \E r \in DOMAIN runs : runs[r].status = "seek" /\ runs[r].elem = e
    /\ Publish(WakeError([World EXCEPT !.elems[e].seeking = FALSE], e, 1))
    /\ UNCHANGED <<file, videoUrl, cvReady, cvLoad, videoRef, detectCalls, lastFrame,
                   lastResult, viewVars>>

\* The effect that awaits loadOpenCv() (lines 255-259).
CvLoaded ==
    /\ cvLoad = "pending"
    /\ cvLoad' = "resolved"
    /\ cvReady' = TRUE
    /\ UNCHANGED <<file, videoUrl, error, isAnalyzing, detections, trajectory, progress,
                   analysisTimestamp, videoRef, domVars, cvVars, viewVars>>

CvLoadFailed ==
    /\ cvLoad = "pending"
    /\ cvLoad' = "rejected"
    /\ error' = CvFailedMsg
    /\ UNCHANGED <<file, videoUrl, isAnalyzing, detections, trajectory, progress, cvReady,
                   analysisTimestamp, videoRef, domVars, cvVars, viewVars>>

(***************************************************************************)
(* Specifications.                                                         *)
(***************************************************************************)
\* The files offered to the component: a clip of three sampling steps with
\* every ball pattern, a clip of duration 0, and a file without a video track.
UIFiles == {Clip(200, TRUE, pat) : pat \in Patterns}
               \cup {Clip(0, TRUE, {}), Clip(100, FALSE, {})}

\* The positions the user scrubs to with the element's controls.
ScrubTimes == {0, SAMPLE_INTERVAL_MS}

Init ==
    /\ file = NoFile
    /\ videoUrl = NoFile
    /\ error = NoError
    /\ isAnalyzing = FALSE
    /\ detections = <<>>
    /\ trajectory = <<>>
    /\ progress = P0
    /\ cvReady = FALSE
    /\ analysisTimestamp = 0
    /\ videoRef = 0
    /\ cvLoad = "pending"
    /\ elems = [e \in 1..MaxElems |-> FreeElem]
    /\ runs = <<>>
    /\ liveBuffers = 0
    /\ detectCalls = 0
    /\ lastFrame = EmptyFrame
    /\ lastResult = detectBall(EmptyFrame)
    /\ summary = AllAbsent
    /\ panel = RenderPanel(AllAbsent)

\* The component in the browser: user input and media events in any order.
Next ==
    \/ CvLoaded
    \/ CvLoadFailed
    \/ \E f \in UIFiles : handleFileChange(f)
    \/ \E f \in UIFiles : dropHandler(f)
    \/ handleReset
    \/ \E c \in BOOLEAN : handleAnalyze(c)
    \/ \E e \in DOMAIN elems : LoadedMetadata(e)
    \/ \E e \in DOMAIN elems : LoadedData(e)
    \/ \E e \in DOMAIN elems : Seeked(e)
    \/ \E e \in DOMAIN elems : VideoError(e)
    \/ \E t \in ScrubTimes : UserSeek(t)

Spec == Init /\ [][Next]_vars

(***************************************************************************)
(* The component under a browser that keeps its media pipeline going: the  *)
(* metadata and the first frame of a source that is loading eventually     *)
(* arrive, and a seek that is awaited is eventually answered by 'seeked'   *)
(* or by 'error'.  Nothing is assumed of the user or of the OpenCV script. *)
(***************************************************************************)
MediaFairness ==
    \A e \in 1..MaxElems :
        /\ WF_vars(LoadedMetadata(e))
        /\ WF_vars(LoadedData(e))
        /\ WF_vars(Seeked(e) \/ VideoError(e))

SpecLive == Init /\ [][Next]_vars /\ MediaFairness

(***************************************************************************)
(* extractDetections alone: one clip is chosen, the OpenCV runtime is      *)
(* loaded, and the clip is analyzed up to MaxRuns times with every seek    *)
(* answered by 'seeked'.                                                   *)
(***************************************************************************)
SamplerDurations == {0, 1, 79, 80, 81, 160, 1000, 2000, 25599, 25600, 25601, MaxDuration}
SamplerFiles == {Clip(d, TRUE, pat) : d \in SamplerDurations, pat \in Patterns}

InitSampler ==
    /\ file = NoFile
    /\ videoUrl = NoFile
    /\ error = NoError
    /\ isAnalyzing = FALSE
    /\ detections = <<>>
    /\ trajectory = <<>>
    /\ progress = P0
    /\ cvReady = TRUE
    /\ analysisTimestamp = 0
    /\ videoRef = 0
    /\ cvLoad = "resolved"
    /\ elems = [e \in 1..MaxElems |-> FreeElem]
    /\ runs = <<>>
    /\ liveBuffers = 0
    /\ detectCalls = 0
    /\ lastFrame = EmptyFrame
    /\ lastResult = detectBall(EmptyFrame)
    /\ summary = AllAbsent
    /\ panel = RenderPanel(AllAbsent)

ChooseClip(f) == file = NoFile /\ handleFileChange(f)

NextSampler ==
    \/ \E f \in SamplerFiles : ChooseClip(f)
    \/ handleAnalyze(TRUE)
    \/ \E e \in DOMAIN elems : LoadedMetadata(e)
    \/ \E e \in DOMAIN elems : LoadedData(e)
    \/ \E e \in DOMAIN elems : Seeked(e)

SpecSampler == InitSampler /\ [][NextSampler]_vars

(***************************************************************************)
(* detectBall alone: a sequence of calls on arbitrary frames.              *)
(***************************************************************************)
DetectBallCall(frame) ==
    /\ detectCalls < MaxCalls
    /\ detectCalls' = detectCalls + 1
    /\ lastFrame' = frame
    /\ lastResult' = detectBall(frame)
    /\ liveBuffers' = liveBuffers + detectBall(frame).leaked
    /\ UNCHANGED <<uiVars, domVars, viewVars>>

NextDetect == \E frame \in Frames : DetectBallCall(frame)

SpecDetect == Init /\ [][NextDetect]_vars

(***************************************************************************)
(* The summary panel alone: the summary changes and the panel re-renders.  *)
(***************************************************************************)
Summaries == [SummaryFields -> FieldValues]

SummaryChanged(s) ==
    /\ summary' = s
    /\ panel' = RenderPanel(s)
    /\ UNCHANGED <<uiVars, domVars, cvVars>>

NextRender == \E s \in Summaries : SummaryChanged(s)

SpecRender == Init /\ [][NextRender]_vars

(***************************************************************************)
(* Properties.                                                             *)
(***************************************************************************)
CeilDiv(a, b) == (a + b - 1) \div b
ActiveRuns == {r \in DOMAIN runs : Active(runs[r])}

\* C1: when extractDetections returns, the last progress value it reported
\* through onProgress is 1.
C1_FinalProgressIsOne ==
    \A r \in DOMAIN runs :
        runs[r].returned =>
            /\ Len(runs[r].reported) > 0
            /\ runs[r].reported[Len(runs[r].reported)] = P1

C3_NoStepAfterAbandon ==
    \A r \in DOMAIN runs : runs[r].abandoned => runs[r].begun = runs[r].begunAtAbandon

\* C4: at most one analysis run is in progress at any time.
C4_OneActiveRun == Cardinality(ActiveRuns) <= 1

\* C4 witness: the Analyze button is rendered for a newly loaded source while a
\* run the caller abandoned is still in progress, and a further run could start.
C4_Witness ==
    /\ videoUrl # NoFile
    /\ Len(SelectSeq(runs, Active)) < MaxRuns
    /\ \E r \in DOMAIN runs : Active(runs[r]) /\ runs[r].abandoned

\* C5: when a seek of a run raises 'error', the run fails in that very step
\* with the seek failure as the message handleAnalyze shows, isAnalyzing is
\* cleared, no further sampling step is begun, and the run does nothing more:
\* its record stays as it is until the next handleAnalyze discards it.
C5_SeekFailureFailsRun ==
    [][\A r \in DOMAIN runs :
          /\ (~runs[r].errored /\ r \in DOMAIN runs' /\ runs'[r].errored) =>
                /\ runs'[r].status = "failed"
                /\ runs'[r].message = SeekMsg
                /\ runs'[r].begun = runs[r].begun
                /\ error' = SeekMsg
                /\ ~isAnalyzing'
          /\ runs[r].errored =>
                \/ r \in DOMAIN runs' /\ runs'[r] = runs[r]
                \/ runs' = Append(SelectSeq(runs, Active), runs'[Len(runs')])
                      /\ ~runs'[Len(runs')].errored]_vars

\* C5 witness: a run failed on the seek of a step after its first.
C5_Witness ==
    \E r \in DOMAIN runs : runs[r].errored /\ runs[r].status = "failed" /\ runs[r].begun >= 2

\* C6: a sampling pass that returns zero detections fails the run with the
\* 'No valid ball samples detected...' message, which no other failure of a run
\* carries and which is carried by no other failure; the projector is called
\* only on a non-empty sequence.
C6_EmptyPassFails ==
    /\ NoSamplesMsg \notin {DimsMsg, SurfaceMsg, SeekMsg, GenericMsg, NoError}
    /\ \A r \in DOMAIN runs :
          LET run == runs[r]
          IN /\ (run.returned /\ Len(run.detections) = 0) =>
                    (run.status = "failed" /\ run.message = NoSamplesMsg)
             /\ run.message = NoSamplesMsg => (run.returned /\ Len(run.detections) = 0)
             /\ run.projected => Len(run.detections) > 0

\* C6 witness: a pass over a clip of several steps returned without a detection.
C6_Witness ==
    \E r \in DOMAIN runs :
        /\ runs[r].returned
        /\ Len(runs[r].detections) = 0
        /\ Len(runs[r].sampled) >= 2
        /\ error = NoSamplesMsg

\* C7: every buffer a detectBall call allocates is released before it returns,
\* so no buffer is live after any sequence of calls.
C7_BuffersReleased == liveBuffers = 0

\* C8: the detections of a run have strictly increasing times, one entry for
\* each step whose localization returned a candidate and none for the others,
\* each with the time of its step.
C8_DetectionsMatchSteps ==
    \A r \in DOMAIN runs :
        LET run == runs[r]
            d == run.detections
        IN /\ \A i \in 1..(Len(d) - 1) : d[i].time < d[i + 1].time
           /\ Len(d) = Len(run.hits)
           /\ \A i \in 1..Min(Len(d), Len(run.hits)) :
                 /\ run.hits[i] + 1 \in DOMAIN run.sampled
                 /\ d[i].time = run.sampled[run.hits[i] + 1]

\* C8 witness: a run succeeded with several detections and with steps omitted.
C8_Witness ==
    \E r \in DOMAIN runs :
        /\ runs[r].status = "done"
        /\ Len(runs[r].detections) >= 2
        /\ Len(runs[r].detections) < Len(runs[r].sampled)
        /\ detections = runs[r].detections

\* C9: a summary field renders as unknown exactly when it is absent; a present
\* value, 0 included, renders as a number.
C9_UnknownIffAbsent ==
    \A f \in SummaryFields : panel[f].unknown <=> ~summary[f].present

\* C10: a run reports progress once per sampled step, every reported value is
\* in [0, 1], and the reported values never decrease.
C10_ProgressWellFormed ==
    \A r \in DOMAIN runs :
        LET p == runs[r].reported
        IN /\ Len(p) = runs[r].sampleIndex
           /\ \A i \in DOMAIN p : InUnitInterval(p[i])
           /\ \A i \in 1..(Len(p) - 1) : ProgressLeq(p[i], p[i + 1])

\* C11: every run that handleAnalyze starts eventually reaches its terminal
\* outcome with isAnalyzing false again, whatever the user does meanwhile,
\* provided the browser answers the media requests (MediaFairness).
C11_RunsTerminate ==
    \A r \in 1..MaxRuns :
        (r \in DOMAIN runs /\ Active(runs[r])) ~> (ActiveRuns = {} /\ ~isAnalyzing)

\* C12: a step in which a run ends in failure shows the run's message and
\* leaves the published detections, trajectory and analysis timestamp as they
\* were; they change only when the caller resets or replaces the source, which
\* clears all three, or when a run ends in success, which publishes its
\* detections, the trajectory projected from them and a new timestamp together.
C12_FailureKeepsResults ==
    [][LET results == <<detections, trajectory, analysisTimestamp>>
           EndsAs(r, st) ==
               /\ r \in DOMAIN runs'
               /\ runs'[r].status = st
               /\ (r \notin DOMAIN runs \/ runs'[r] # runs[r])
       IN /\ \A r \in 1..MaxRuns :
                EndsAs(r, "failed") => (results' = results /\ error' = runs'[r].message)
          /\ results' # results =>
                \/ /\ results' = <<(<<>>), (<<>>), 0>>
                   /\ \A r \in 1..MaxRuns : ~EndsAs(r, "done") /\ ~EndsAs(r, "failed")
                \/ \E r \in 1..MaxRuns :
                      /\ EndsAs(r, "done")
                      /\ Len(runs'[r].detections) > 0
                      /\ detections' = runs'[r].detections
                      /\ trajectory' = convertDetectionsToHawkEye(detections')
                      /\ analysisTimestamp' \notin {0, analysisTimestamp}]_vars

\* C12 witness: a run has failed while the results of an earlier successful run
\* are displayed, together with the failed run's message.
C12_Witness ==
    /\ ~isAnalyzing
    /\ Len(detections) > 0
    /\ trajectory = convertDetectionsToHawkEye(detections)
    /\ analysisTimestamp # 0
    /\ \E r \in DOMAIN runs :
          runs[r].status = "failed" /\ runs[r].message # NoError /\ error = runs[r].message

====
